---- MODULE Spec2Model ----
(***************************************************************************)
(* A model of the yew-router routing core: the History Store, the         *)
(* Navigator's basename transform, the Router component (base_router) with *)
(* its reducer cell, its mount effect and its listener, and the Switch     *)
(* component.                                                              *)
(*                                                                         *)
(* Strings are sequences of one-character strings: "/a/b" is               *)
(* <<"/", "a", "/", "b">>.  An Option<T> is a record [some, v].            *)
(***************************************************************************)
EXTENDS Integers, Sequences, FiniteSets, TLC

VARIABLES
    stores,          \* store id -> [entries, idx]: the History Stores
    listening,       \* store id -> BOOLEAN: the Router's listener is registered there
    props,           \* RouterProps of the Router's latest render
    r_status,        \* "uninit" | "active" | "failed" | "destroyed"
    old_basename,    \* use_mut_ref cell: the previously applied basename
    navi_ctx,        \* NavigatorContext handed to the children
    loc_ctx,         \* use_reducer cell: LocationContext {location, ctr}
    published,       \* LocationContext handed to the children by the latest render
    eff_dep,         \* history the latest run of the effect was given (0: never ran)
    eff_pending,     \* the effect is scheduled and has not run yet
    render_pending,  \* a dispatch scheduled a re-render that has not run yet
    sw,              \* what the Switch invocation that just ran did
    rec,             \* what the reconciliation of the render that just ran did
    nav_log,         \* Locations committed on a store while the listener was registered on it
    cb_log,          \* Locations the listener callback handed to the reducer
    n_forced,        \* forced updates dispatched by the effect
    n_updates,       \* updates the LocationContext provider propagated to its subscribers
    n_commits,       \* navigations committed on any store
    io,              \* the recv_from the thread is waiting in, if any
    cx               \* the Routable or Navigator call that ran last, with what it returned

vars == <<stores, listening, props, r_status, old_basename, navi_ctx, loc_ctx,
          published, eff_dep, eff_pending, render_pending, sw, rec,
          nav_log, cb_log, n_forced, n_updates, n_commits, io, cx>>

---------------------------------------------------------------------------
(* Bounds *)

\* navigations (push, replace, go, reconciliation replace) committed in one run
MaxNav == 2

\* runs of the Router's effect in one run
MaxEffect == 2

\* navigations committed in one run of the specification with the Switch
MaxNavSwitch == 1

\* the History Stores the application can hand to the Router
StoreIds == {1, 2}

---------------------------------------------------------------------------
(* Strings and options *)

None == [some |-> FALSE, v |-> <<>>]

Some(x) == [some |-> TRUE, v |-> x]

StartsWith(s, p) == Len(p) <= Len(s) /\ SubSeq(s, 1, Len(p)) = p

Root == <<"/">>

PathA == <<"/", "a">>

PathASlash == <<"/", "a", "/">>

PathB == <<"/", "b">>

PathAB == <<"/", "a", "/", "b">>

PathBA == <<"/", "b", "/", "a">>

EmptyQuery == <<>>

QueryQ == <<"q">>

\* utils::strip_slash_suffix: a trailing slash is dropped
strip_slash_suffix(s) ==
    IF Len(s) > 0 /\ s[Len(s)] = "/" THEN SubSeq(s, 1, Len(s) - 1) ELSE s

---------------------------------------------------------------------------
(* Location and the History Store *)

\* a Location: the Router reads its path and its query string only
Loc(p, q) == [path |-> p, query |-> q]

\* History::location(): the entry the store is at
Location(st) == st.entries[st.idx]

\* History::push: the entries after the current one are dropped, the new one is current
Push(st, l) == [entries |-> Append(SubSeq(st.entries, 1, st.idx), l), idx |-> st.idx + 1]

\* History::replace_with_query: the current entry is overwritten in place
Replace(st, l) == [st EXCEPT !.entries[st.idx] = l]

\* History::go (back / forward): the position moves, the entries stay
Go(st, d) == [st EXCEPT !.idx = st.idx + d]

---------------------------------------------------------------------------
(* Navigator: the basename transform *)

\* Navigator::prefix_basename
prefix_basename(basename, path) ==
    IF basename.some THEN basename.v \o path ELSE path

RECURSIVE strip_basename_repeatedly(_, _)
\* a strip that removes the basename as many times as the path leads with it
strip_basename_repeatedly(basename, path) ==
    IF basename.some /\ basename.v # <<>> /\ StartsWith(path, basename.v)
    THEN strip_basename_repeatedly(basename, SubSeq(path, Len(basename.v) + 1, Len(path)))
    ELSE path

\* Navigator::strip_basename
strip_basename(basename, path) ==
    IF basename.some /\ StartsWith(path, basename.v)
    THEN SubSeq(path, Len(basename.v) + 1, Len(path))
    ELSE path

---------------------------------------------------------------------------
(* LocationContext *)

\* ctr is a u32, held as two 16-bit halves [hi, lo]: its value is hi * 65536 + lo
Half == 65536

\* the u32 of a small number
U32(n) == [hi |-> n \div Half, lo |-> n % Half]

\* u32 + 1, wrapping at 2^32
u32_add_one(c) ==
    IF c.lo + 1 < Half
    THEN [hi |-> c.hi, lo |-> c.lo + 1]
    ELSE [hi |-> (c.hi + 1) % Half, lo |-> 0]

\* u32::MAX
U32Max == [hi |-> Half - 1, lo |-> Half - 1]

\* a < b, as numbers
U32Less(a, b) == a.hi < b.hi \/ (a.hi = b.hi /\ a.lo < b.lo)

\* b is exactly one greater than a, as numbers
OneGreater(a, b) ==
    \/ a.lo + 1 < Half /\ b = [hi |-> a.hi, lo |-> a.lo + 1]
    \/ a.lo + 1 = Half /\ a.hi + 1 < Half /\ b = [hi |-> a.hi + 1, lo |-> 0]

\* an equality that compares the Locations instead of the counters
LocationContext_eq_by_location(a, b) == a.location = b.location

\* impl PartialEq for LocationContext
LocationContext_eq(a, b) == a.ctr = b.ctr

\* a reducer that stores the Location and leaves the counter as it is
reduce_keeps_ctr(self, action) == [location |-> action, ctr |-> self.ctr]

\* impl Reducible for LocationContext
reduce(self, action) == [location |-> action, ctr |-> u32_add_one(self.ctr)]

---------------------------------------------------------------------------
(* Inputs *)

\* the Locations the stores start at (the address the page was loaded with)
InitLoc(s) == IF s = 1 THEN {Loc(Root, EmptyQuery), Loc(PathAB, QueryQ)} ELSE {Loc(PathB, EmptyQuery)}

\* the Locations application code and the user navigate to
NavLocs == {Loc(PathAB, QueryQ), Loc(PathBA, EmptyQuery)}

\* the basename prop
Basenames == {None, Some(PathASlash), Some(PathB)}

\* what base_url() returns: the <base href> of the document, none if it has none
BaseUrls == {None, Some(PathA), Some(PathB)}

\* RouterProps (the children are not modelled)
RouterProps == [history : StoreIds, basename : Basenames]

NoLoc == Loc(<<>>, <<>>)

NoCtx == [location |-> NoLoc, ctr |-> U32(0)]

NoRec == [ran |-> FALSE, old |-> None, new |-> None, from |-> NoLoc,
          issued |-> FALSE, to |-> <<>>, navigators |-> 0]

---------------------------------------------------------------------------
(* Route Codec: the Routable contract of a derived route type *)

Lit(s) == [k |-> "lit", s |-> s]

Param(n) == [k |-> "param", s |-> n]

CatchAll(n) == [k |-> "catch", s |-> n]

Path404 == <<"/", "4", "0", "4">>

\* the route types Switch is used with: App declares /a/:id and /b/*rest; AppNF
\* declares the same and a not-found route at /404
Codecs == {"App", "AppNF"}

\* the derived route types: Users declares the overlapping patterns /a/:id and
\* /a/*rest, and /
DerivedCodecs == Codecs \cup {"Users"}

\* Routable::routes(): the declared patterns, in match-priority order, as token lists
routes(R) ==
    IF R = "App"
    THEN << <<Lit(<<"a">>), Param("id")>>, <<Lit(<<"b">>), CatchAll("rest")>> >>
    ELSE IF R = "Users"
    THEN << <<Lit(<<"a">>), Param("id")>>, <<Lit(<<"a">>), CatchAll("rest")>>, <<>> >>
    ELSE << <<Lit(<<"a">>), Param("id")>>, <<Lit(<<"b">>), CatchAll("rest")>>,
            <<Lit(<<"4", "0", "4">>)>> >>

NoRoute == [some |-> FALSE, case |-> 0, params |-> <<>>]

Route(i, ps) == [some |-> TRUE, case |-> i, params |-> ps]

\* Routable::not_found_route()
not_found_route(R) == IF R = "AppNF" THEN Route(3, <<>>) ELSE NoRoute

RECURSIVE Split(_)
\* the slash-delimited segments of a string without its leading slash
Split(s) ==
    IF s = <<>> THEN <<>>
    ELSE LET i == CHOOSE i \in 1..(Len(s) + 1) :
                      /\ i = Len(s) + 1 \/ s[i] = "/"
                      /\ \A j \in 1..(i - 1) : s[j] # "/"
         IN IF i = Len(s) + 1 THEN <<s>>
            ELSE IF i = Len(s) THEN <<SubSeq(s, 1, i - 1), <<>> >>
            ELSE <<SubSeq(s, 1, i - 1)>> \o Split(SubSeq(s, i + 1, Len(s)))

\* the segments of a pathname
Segments(pathname) ==
    IF Len(pathname) > 0 /\ pathname[1] = "/" THEN Split(Tail(pathname)) ELSE Split(pathname)

RECURSIVE Join(_)
\* segments joined by slashes: what a catch-all records
Join(segs) ==
    IF segs = <<>> THEN <<>>
    ELSE IF Len(segs) = 1 THEN segs[1]
    ELSE segs[1] \o <<"/">> \o Join(Tail(segs))

NoMatch == [ok |-> FALSE, params |-> <<>>]

RECURSIVE Match(_, _)
\* a pattern matched component by component against the segments
Match(tokens, segs) ==
    IF tokens = <<>> THEN [ok |-> segs = <<>>, params |-> <<>>]
    ELSE LET t == tokens[1] IN
         IF t.k = "catch" THEN [ok |-> TRUE, params |-> << <<t.s, Join(segs)>> >>]
         ELSE IF segs = <<>> THEN NoMatch
         ELSE IF t.k = "lit"
              THEN IF segs[1] = t.s THEN Match(Tail(tokens), Tail(segs)) ELSE NoMatch
         ELSE IF segs[1] = <<>> THEN NoMatch
         ELSE LET rest == Match(Tail(tokens), Tail(segs))
              IN IF rest.ok
                 THEN [ok |-> TRUE, params |-> << <<t.s, segs[1]>> >> \o rest.params]
                 ELSE NoMatch

\* a recognize in which the last declared pattern that matches wins
recognize_last_match(R, pathname) ==
    LET segs == Segments(pathname)
        hits == {i \in 1..Len(routes(R)) : Match(routes(R)[i], segs).ok}
    IN IF hits = {} THEN NoRoute
       ELSE LET i == CHOOSE i \in hits : \A j \in hits : i >= j
            IN Route(i, Match(routes(R)[i], segs).params)

\* Routable::recognize: the first declared pattern that matches, none if none does
recognize(R, pathname) ==
    LET segs == Segments(pathname)
        hits == {i \in 1..Len(routes(R)) : Match(routes(R)[i], segs).ok}
    IN IF hits = {} THEN NoRoute
       ELSE LET i == CHOOSE i \in hits : \A j \in hits : i <= j
            IN Route(i, Match(routes(R)[i], segs).params)

\* the names a pattern requires of a parameter mapping
required(tokens) == {tokens[k].s : k \in {j \in 1..Len(tokens) : tokens[j].k # "lit"}}

\* the names a parameter mapping supplies
supplied(params) == {params[k][1] : k \in 1..Len(params)}

\* the value a parameter mapping gives a name
ParamValue(params, n) ==
    LET k == CHOOSE k \in 1..Len(params) : params[k][1] = n IN params[k][2]

\* Routable::from_path of a derived type: path is the declared pattern, named by its
\* position in routes(); none if a name the pattern requires is not supplied
from_path(R, pat, params) ==
    LET tokens == routes(R)[pat]
        names == SelectSeq(tokens, LAMBDA t : t.k # "lit")
    IN IF required(tokens) \subseteq supplied(params)
       THEN Route(pat, [k \in 1..Len(names) |->
                            <<names[k].s, ParamValue(params, names[k].s)>>])
       ELSE NoRoute

\* Routable::to_path of a derived type: the parameter values substituted into the
\* pattern of the route's case
to_path(R, route) ==
    LET tokens == routes(R)[route.case]
    IN <<"/">> \o Join([k \in 1..Len(tokens) |->
                           IF tokens[k].k = "lit" THEN tokens[k].s
                           ELSE ParamValue(route.params, tokens[k].s)])

---------------------------------------------------------------------------
(* AnyRoute *)

PathABC == <<"/", "a", "/", "b", "/", "c">>

\* AnyRoute { path }: the one case of the type, with its field `path`
AnyRoute(path) == Route(1, << <<"path", path>> >>)

\* AnyRoute::new(pathname)
AnyRoute_new(pathname) == AnyRoute(pathname)

\* AnyRoute::from_path, after its socket calls returned:
\* if params.is_empty() { Some(Self { path }) } else { None }
AnyRoute_from_path(path, params) == IF params = <<>> THEN AnyRoute(path) ELSE NoRoute

\* a to_path that loses the path it was built with
AnyRoute_to_path_not_found(route) == Path404

\* AnyRoute::to_path: self.path.to_string()
AnyRoute_to_path(route) == route.params[1][2]

\* a type that declares no pattern
AnyRoute_routes_none == <<>>

\* AnyRoute::routes(): vec!["/*path"]
AnyRoute_routes == << <<CatchAll("path")>> >>

\* AnyRoute::not_found_route()
AnyRoute_not_found_route == AnyRoute(Path404)

\* a recognize that sends the root to the not-found route
AnyRoute_recognize_root_not_found(pathname) ==
    IF pathname = Root THEN AnyRoute(Path404) ELSE AnyRoute(pathname)

\* AnyRoute::recognize, after its socket calls returned:
\* Some(Self { path: pathname.to_string() })
AnyRoute_recognize(pathname) == AnyRoute(pathname)

---------------------------------------------------------------------------
(* Routable, over the route types *)

RouteTypes == DerivedCodecs \cup {"AnyRoute"}

Routable_routes(R) == IF R = "AnyRoute" THEN AnyRoute_routes ELSE routes(R)

Routable_recognize(R, pathname) ==
    IF R = "AnyRoute" THEN AnyRoute_recognize(pathname) ELSE recognize(R, pathname)

Routable_to_path(R, route) ==
    IF R = "AnyRoute" THEN AnyRoute_to_path(route) ELSE to_path(R, route)

\* pathname matches the pattern declared in position i
Matches(R, i, pathname) == Match(Routable_routes(R)[i], Segments(pathname)).ok

\* the pathnames the route types are called with
CodecPaths == {<<>>, Root, PathA, PathB, PathAB, PathBA, PathABC}

\* the parameter mappings from_path is called with
ParamMaps == {<<>>, << <<"path", <<"a", "/", "b">> >> >>, << <<"id", <<"b">> >> >>,
              << <<"rest", <<"b", "/", "c">> >> >>}

---------------------------------------------------------------------------
(* Switch: props and results *)

\* the pathname prop
Pathnames == {None, Some(PathAB), Some(Root)}

\* props.render: the Html the application's callback returns for a route
render_emit(route) == [tag |-> "view", of |-> route]

\* Html::default()
HtmlDefault == [tag |-> "empty", of |-> NoRoute]

\* no call is waiting in recv_from and no socket is bound to 0.0.0.0:8087; held: the
\* functions on the stack whose socket is bound to the port; route: what use_route
\* returned to the Switch that is rendering
IoNone == [op |-> "none", p |-> [history |-> 1, basename |-> None], R |-> "App",
           pathname |-> None, held |-> {}, route |-> NoRoute]

\* no stream handler was called; pc: where the call is, fn: the handler,
\* read_result and data: what it read, engine: its handle_*_operations was called,
\* final_data: what the engine hands to its sinks, size: the bytes the copy sink was
\* asked to copy, execve and execvp: what the exec sinks did, result: what the
\* handler returned
HIdle == [fn |-> "none", pc |-> "idle", read_result |-> 0, data |-> <<>>,
          engine |-> FALSE, final_data |-> <<>>, size |-> 0, execve |-> "none",
          execvp |-> "none", result |-> "none"]

\* no Routable or Navigator call ran and no stream handler was called
CxIdle == [h |-> HIdle, op |-> "none", R |-> "AnyRoute", pathname |-> <<>>, pat |-> 0,
           params |-> <<>>, basename |-> None, done |-> FALSE, out |-> NoRoute,
           by |-> "none", back |-> NoRoute, path_out |-> <<>>,
           base |-> None, passed |-> None]

SwIdle == [ran |-> FALSE, done |-> FALSE, R |-> "App", pathname |-> None,
           ctx_route |-> NoRoute, route |-> NoRoute, emitted |-> <<>>,
           warns |-> 0, html |-> HtmlDefault]

---------------------------------------------------------------------------
(* base_router *)

\* basename.map(|m| strip_slash_suffix(&m).to_owned())
configured_basename(b) == IF b.some THEN Some(strip_slash_suffix(b.v)) ELSE None

\* an old_navigator built from the applied basename alone: none if none was applied
old_navigator_applied_only(old, basename) == old

\* an old_navigator built from the new basename whatever was applied before
old_navigator_new_only(old, basename) == basename

\* old_basename.as_ref().or(basename.as_ref()).cloned(): the basename of old_navigator
old_navigator(old, basename) == IF old.some THEN old ELSE basename

\* a reconciliation that never stores the basename it applied
applied_never_stored(old, basename) == old

\* if basename != *old_basename { .. *old_basename = basename.clone(); .. }: the
\* applied basename after the block
applied(old, basename) == IF basename # old THEN basename ELSE old

\* a re-homing that hands the stripped path to the store as it is
rehomed_unprefixed(old, basename, path) ==
    strip_basename(old_navigator(old, basename), path)

\* the path the reconciliation re-homes `path` to
rehomed(old, basename, path) ==
    prefix_basename(basename, strip_basename(old_navigator(old, basename), path))

\* a callback that dispatches the Location the store had before the change
history_cb_stale(sts, h) == Location(stores[h])

\* move || loc_ctx_dispatcher.dispatch(history.location()): the action the listener
\* callback dispatches when store h reports a change
history_cb(sts, h) == Location(sts[h])

\* history.listen(history_cb): the listener is registered on store h
listen(l, h) == [l EXCEPT ![h] = TRUE]

\* a destructor that keeps the listener alive (it is forgotten, not dropped)
destructor_keeps_listener(l, h) == l

\* the effect's destructor, std::mem::drop(listener): the listener held for store h
\* (0: no effect ran yet) is released
destructor(l, h) == [s \in StoreIds |-> IF s = h THEN FALSE ELSE l[s]]

\* an effect that runs after every render
effect_due_always(history, dep) == TRUE

\* use_effect_with(history, ..): the effect runs after a render whose history differs
\* from the one its latest run was given (0: it never ran)
effect_due(history, dep) == history # dep

\* a reconciliation that replaces with the path alone
query_dropped(location) == EmptyQuery

\* Raw(location.query_str()): the query the reconciliation hands to the replace
query_str(location) == location.query

\* a reconciliation that navigates with push
replace_with_query_pushes(st, l) == Push(st, l)

\* history.replace_with_query(prefixed, Raw(location.query_str())): the navigation the
\* reconciliation issues on the store
replace_with_query(st, l) == Replace(st, l)

\* Navigator::new(history.clone(), basename.clone()) of every render, and the
\* old_navigator of a render whose basename changed: the Navigators one render
\* constructs
navigators_constructed(changed) == IF changed THEN 2 ELSE 1

\* a cell initialised with the Location the page loaded with
initial_location_at_load(entered, reconciled, h) == Location(entered[h])

\* use_reducer(|| LocationContext { location: history.location(), ctr: 0 }), after
\* the reconciliation block: the Location the cell is initialised with
initial_location(entered, reconciled, h) == Location(reconciled[h])

\* a render that builds its html before the reconciliation: the children get the
\* context as it was when the function was entered
provided_before_reconciliation(entered, reconciled) == entered

\* <ContextProvider<LocationContext> context={(*loc_ctx).clone()}>, at the end of the
\* function: the children get the context as it is after the reconciliation
provided(entered, reconciled) == reconciled

\* ContextProvider<LocationContext>: the subscribers are notified when the context
\* handed to the provider differs (PartialEq) from the one it held
notifies(held, ctx) == held.has /\ ~LocationContext_eq(held.ctx, ctx)


\* one render of base_router with props p; sockOk: the UdpSocket bind and recv_from
\* at the head of the function succeeded (they are unwrapped: a failure panics)
Render(p, sockOk) ==
    IF ~sockOk
    THEN /\ r_status' = "failed"
         /\ render_pending' = FALSE
         /\ eff_pending' = FALSE
         /\ rec' = NoRec
         /\ sw' = SwIdle
         /\ UNCHANGED <<stores, listening, props, old_basename, navi_ctx, loc_ctx,
                        published, eff_dep, nav_log, cb_log, n_forced, n_updates,
                        n_commits>>
    ELSE LET basename == configured_basename(p.basename)
             changed == basename # old_basename
             location == Location(stores[p.history])
             prefixed == rehomed(old_basename, basename, location.path)
             issue == changed /\ prefixed # location.path
             stores1 == IF issue
                        THEN [stores EXCEPT ![p.history] =
                                  replace_with_query(@, Loc(prefixed, query_str(location)))]
                        ELSE stores
             heard == issue /\ listening[p.history]
             cell == IF r_status = "uninit"
                     THEN [location |-> initial_location(stores, stores1, p.history),
                           ctr |-> U32(0)]
                     ELSE IF heard THEN reduce(loc_ctx, history_cb(stores1, p.history))
                     ELSE loc_ctx
             entered == IF r_status = "uninit"
                        THEN [location |-> location, ctr |-> U32(0)]
                        ELSE loc_ctx
             context == provided(entered, cell)
         IN /\ issue => n_commits < MaxNav
            /\ r_status' = "active"
            /\ props' = p
            /\ old_basename' = applied(old_basename, basename)
            /\ stores' = stores1
            /\ n_commits' = IF issue THEN n_commits + 1 ELSE n_commits
            /\ nav_log' = IF heard THEN Append(nav_log, Location(stores1[p.history]))
                           ELSE nav_log
            /\ cb_log' = IF heard THEN Append(cb_log, history_cb(stores1, p.history))
                          ELSE cb_log
            /\ loc_ctx' = cell
            /\ navi_ctx' = [has |-> TRUE, history |-> p.history, basename |-> basename]
            /\ published' = [has |-> TRUE, ctx |-> context]
            /\ n_updates' = IF notifies(published, context) THEN n_updates + 1
                             ELSE n_updates
            /\ eff_pending' = effect_due(p.history, eff_dep)
            /\ render_pending' = heard
            /\ rec' = [ran |-> changed, old |-> old_basename, new |-> basename,
                        from |-> location, issued |-> issue, to |-> prefixed,
                        navigators |-> navigators_constructed(changed)]
            /\ sw' = SwIdle
            /\ UNCHANGED <<listening, eff_dep, n_forced>>

\* the parent renders the Router (the first render mounts it)
RouterRender(p, sockOk) ==
    /\ r_status \in {"uninit", "active"}
    /\ ~render_pending
    /\ ~eff_pending
    /\ Render(p, sockOk)
    /\ UNCHANGED <<io, cx>>

\* the re-render a dispatch scheduled, with the props unchanged
RouterRerender(sockOk) ==
    /\ r_status = "active"
    /\ render_pending
    /\ Render(props, sockOk)
    /\ UNCHANGED <<io, cx>>

\* an effect that registers its listener without the forced update
forced_update_skipped(ctx, sts, h) == ctx

\* an effect whose registration calls the listener back at once: two dispatches
forced_update_and_callback(ctx, sts, h) ==
    reduce(reduce(ctx, Location(sts[h])), Location(sts[h]))

\* loc_ctx_dispatcher.dispatch(history.location()), at the head of the effect: the
\* one dispatch of a run of the effect
forced_update(ctx, sts, h) == reduce(ctx, Location(sts[h]))

\* use_effect_with(history, ..): the destructor of the previous run, then the forced
\* update and the registration of the listener
RouterEffect ==
    /\ r_status = "active"
    /\ eff_pending
    /\ ~render_pending
    /\ n_forced < MaxEffect
    /\ LET history == props.history
       IN /\ loc_ctx' = forced_update(loc_ctx, stores, history)
          /\ listening' = listen(destructor(listening, eff_dep), history)
          /\ eff_dep' = history
    /\ eff_pending' = FALSE
    /\ render_pending' = TRUE
    /\ n_forced' = n_forced + 1
    /\ rec' = NoRec
    /\ sw' = SwIdle
    /\ UNCHANGED <<stores, props, r_status, old_basename, navi_ctx, published,
                   nav_log, cb_log, n_updates, n_commits, io, cx>>

\* the Router is unmounted: the effect's destructor runs
RouterUnmount ==
    /\ r_status = "active"
    /\ ~render_pending
    /\ r_status' = "destroyed"
    /\ listening' = destructor(listening, eff_dep)
    /\ eff_pending' = FALSE
    /\ rec' = NoRec
    /\ sw' = SwIdle
    /\ UNCHANGED <<stores, props, old_basename, navi_ctx, loc_ctx, published, eff_dep,
                   render_pending, nav_log, cb_log, n_forced, n_updates, n_commits,
                   io, cx>>

---------------------------------------------------------------------------
(* Navigation on a History Store *)

\* store s commits st: its listeners are called back before the call returns
Commit(s, st) ==
    /\ ~render_pending
    /\ n_commits < MaxNav
    /\ stores' = [stores EXCEPT ![s] = st]
    /\ n_commits' = n_commits + 1
    /\ IF listening[s]
       THEN /\ loc_ctx' = reduce(loc_ctx, history_cb(stores', s))
            /\ cb_log' = Append(cb_log, history_cb(stores', s))
            /\ nav_log' = Append(nav_log, Location(st))
            /\ render_pending' = (r_status = "active")
       ELSE UNCHANGED <<loc_ctx, cb_log, nav_log, render_pending>>
    /\ rec' = NoRec
    /\ sw' = SwIdle
    /\ UNCHANGED <<listening, props, r_status, old_basename, navi_ctx, published,
                   eff_dep, eff_pending, n_forced, n_updates, io, cx>>

HistoryPush(s, l) == Commit(s, Push(stores[s], l))

HistoryReplace(s, l) == Commit(s, Replace(stores[s], l))

\* back / forward
HistoryGo(s, d) ==
    /\ stores[s].idx + d \in 1..Len(stores[s].entries)
    /\ Commit(s, Go(stores[s], d))

---------------------------------------------------------------------------
(* Switch *)

\* use_route::<R>(): the route of the Location the Router handed down, none when no
\* Router handed a Navigator and a Location down
use_route(R) ==
    IF navi_ctx.has /\ published.has
    THEN recognize(R, strip_basename(navi_ctx.basename, published.ctx.location.path))
    ELSE NoRoute

\* a resolution that never falls back to the Location's route when a pathname is given
resolve_override_only(R, pathname, route) ==
    IF pathname.some THEN recognize(R, pathname.v) ELSE route

\* props.pathname.as_ref().and_then(|p| R::recognize(p)).or(route)
resolve(R, pathname, route) ==
    LET over == IF pathname.some THEN recognize(R, pathname.v) ELSE NoRoute
    IN IF over.some THEN over ELSE route

\* a match that drops the diagnostic of its None arm
switch_match_silent(route) ==
    IF route.some
    THEN [emitted |-> <<route>>, warns |-> 0, html |-> render_emit(route)]
    ELSE [emitted |-> <<>>, warns |-> 0, html |-> HtmlDefault]

\* a match that calls the callback and drops what it returns
switch_match_drops_html(route) ==
    IF route.some
    THEN [emitted |-> <<route>>, warns |-> 0, html |-> HtmlDefault]
    ELSE [emitted |-> <<>>, warns |-> 1, html |-> HtmlDefault]

\* match route { Some(route) => props.render.emit(route),
\*               None => { tracing::warn!(..); Html::default() } }
switch_match(route) ==
    IF route.some
    THEN [emitted |-> <<route>>, warns |-> 0, html |-> render_emit(route)]
    ELSE [emitted |-> <<>>, warns |-> 1, html |-> HtmlDefault]

\* one render of Switch::<R> with the pathname prop; sockOk: the UdpSocket bind and
\* recv_from at the head of the function succeeded (a failure panics)
SwitchRender(R, pathname, sockOk) ==
    /\ LET ctx_route == use_route(R)
           route == resolve(R, pathname, ctx_route)
       IN sw' = IF ~sockOk
                THEN [SwIdle EXCEPT !.ran = TRUE, !.R = R, !.pathname = pathname]
                ELSE [ran |-> TRUE, done |-> TRUE, R |-> R, pathname |-> pathname,
                      ctx_route |-> ctx_route, route |-> route,
                      emitted |-> switch_match(route).emitted,
                      warns |-> switch_match(route).warns,
                      html |-> switch_match(route).html]
    /\ rec' = NoRec
    /\ UNCHANGED <<stores, listening, props, r_status, old_basename, navi_ctx, loc_ctx,
                   published, eff_dep, eff_pending, render_pending, nav_log, cb_log,
                   n_forced, n_updates, n_commits>>

\* a descendant of the mounted Router renders a Switch
Switch(R, pathname, sockOk) ==
    /\ r_status = "active"
    /\ ~render_pending
    /\ SwitchRender(R, pathname, sockOk)
    /\ UNCHANGED <<io, cx>>

---------------------------------------------------------------------------
(* Calls of the Routable functions and of the Navigator's basename transform *)

\* the state of the Router and of the Switch
router_vars == <<stores, listening, props, r_status, old_basename, navi_ctx, loc_ctx,
                 published, eff_dep, eff_pending, render_pending, sw, rec,
                 nav_log, cb_log, n_forced, n_updates, n_commits>>

\* AnyRoute::recognize(pathname); sockOk: its UdpSocket bind and recv_from succeeded
\* (a failure panics: the call returns nothing)
AnyRouteRecognizeCall(pathname, sockOk) ==
    cx' = [CxIdle EXCEPT !.op = "recognize", !.pathname = pathname, !.done = sockOk,
                         !.out = IF sockOk THEN AnyRoute_recognize(pathname) ELSE NoRoute]

AnyRouteRecognize(pathname, sockOk) ==
    /\ AnyRouteRecognizeCall(pathname, sockOk)
    /\ UNCHANGED <<router_vars, io>>

\* AnyRoute::from_path(path, params); sockOk as in recognize
AnyRouteFromPathCall(path, params, sockOk) ==
    cx' = [CxIdle EXCEPT !.op = "from_path", !.pathname = path, !.params = params,
                         !.done = sockOk,
                         !.out = IF sockOk THEN AnyRoute_from_path(path, params)
                                 ELSE NoRoute]

AnyRouteFromPath(path, params, sockOk) ==
    /\ AnyRouteFromPathCall(path, params, sockOk)
    /\ UNCHANGED <<router_vars, io>>

\* AnyRoute::new(pathname)
AnyRouteNew(pathname) ==
    /\ cx' = [CxIdle EXCEPT !.op = "new", !.pathname = pathname, !.done = TRUE,
                            !.out = AnyRoute_new(pathname)]
    /\ UNCHANGED <<router_vars, io>>

\* R::recognize(pathname) of a derived type
DerivedRecognize(R, pathname) ==
    /\ cx' = [CxIdle EXCEPT !.op = "recognize", !.R = R, !.pathname = pathname,
                            !.done = TRUE, !.out = recognize(R, pathname)]
    /\ UNCHANGED <<router_vars, io>>

\* R::from_path(pattern, params) of a derived type
DerivedFromPath(R, pat, params) ==
    /\ cx' = [CxIdle EXCEPT !.op = "from_path", !.R = R, !.pat = pat,
                            !.params = params, !.done = TRUE,
                            !.out = from_path(R, pat, params)]
    /\ UNCHANGED <<router_vars, io>>

\* R::recognize(&route.to_path()) on the route the last call built; sockOk: the socket
\* calls of AnyRoute::recognize succeeded
RoundTrip(sockOk) ==
    /\ cx.op \in {"from_path", "new", "recognize"}
    /\ cx.done
    /\ cx.out.some
    /\ cx.R # "AnyRoute" => sockOk
    /\ cx' = [cx EXCEPT !.op = "round_trip", !.by = cx.op, !.done = sockOk,
                        !.path_out = Routable_to_path(cx.R, cx.out),
                        !.back = IF sockOk
                                 THEN Routable_recognize(cx.R, Routable_to_path(cx.R, cx.out))
                                 ELSE NoRoute]
    /\ UNCHANGED <<router_vars, io>>

\* a BrowserRouter that prefers the document's base to its props
browser_router_basename_base_first(basename, base) ==
    IF base.some THEN base ELSE basename

\* basename.map(|m| m.to_string()).or_else(base_url): the basename BrowserRouter
\* passes to BaseRouter; base is what base_url() returns for the document
browser_router_basename(basename, base) ==
    IF basename.some THEN basename ELSE base

\* one render of BrowserRouter with the basename prop, in a document whose
\* <base href> gives base; sockOk: its UdpSocket bind and recv_from succeeded
BrowserRouter(basename, base, sockOk) ==
    /\ cx' = [CxIdle EXCEPT !.op = "browser_router", !.basename = basename,
                            !.base = base, !.done = sockOk,
                            !.passed = IF sockOk
                                       THEN browser_router_basename(basename, base)
                                       ELSE None]
    /\ UNCHANGED <<router_vars, io>>

\* navigator.strip_basename(&navigator.prefix_basename(path)) with the Navigator of a
\* Router given the basename prop b
BasenameRoundTrip(b, path) ==
    /\ cx' = [CxIdle EXCEPT !.op = "basename", !.basename = configured_basename(b),
                            !.pathname = path, !.done = TRUE,
                            !.path_out = strip_basename(configured_basename(b),
                                             prefix_basename(configured_basename(b), path))]
    /\ UNCHANGED <<router_vars, io>>

---------------------------------------------------------------------------

Init ==
    /\ stores \in [StoreIds -> UNION {{[entries |-> <<l>>, idx |-> 1] : l \in InitLoc(s)} : s \in StoreIds}]
    /\ \A s \in StoreIds : Location(stores[s]) \in InitLoc(s)
    /\ listening = [s \in StoreIds |-> FALSE]
    /\ props = [history |-> 1, basename |-> None]
    /\ r_status = "uninit"
    /\ old_basename = None
    /\ navi_ctx = [has |-> FALSE, history |-> 1, basename |-> None]
    /\ loc_ctx = NoCtx
    /\ published = [has |-> FALSE, ctx |-> NoCtx]
    /\ eff_dep = 0
    /\ eff_pending = FALSE
    /\ render_pending = FALSE
    /\ sw = SwIdle
    /\ rec = NoRec
    /\ nav_log = <<>>
    /\ cb_log = <<>>
    /\ n_forced = 0
    /\ n_updates = 0
    /\ n_commits = 0
    /\ io = IoNone
    /\ cx = CxIdle

Next ==
    \/ \E p \in RouterProps, sockOk \in BOOLEAN : RouterRender(p, sockOk)
    \/ \E sockOk \in BOOLEAN : RouterRerender(sockOk)
    \/ RouterEffect
    \/ RouterUnmount
    \/ \E s \in StoreIds, l \in NavLocs : HistoryPush(s, l)
    \/ \E s \in StoreIds, l \in NavLocs : HistoryReplace(s, l)
    \/ \E s \in StoreIds, d \in {-1, 1} : HistoryGo(s, d)

Spec == Init /\ [][Next]_vars

\* the Router with a Switch among its descendants
NextSwitch ==
    \/ Next /\ n_commits' <= MaxNavSwitch
    \/ \E R \in Codecs, pathname \in Pathnames, sockOk \in BOOLEAN : Switch(R, pathname, sockOk)

SpecSwitch == Init /\ [][NextSwitch]_vars

---------------------------------------------------------------------------
(* The Router after 2^32 - 1 dispatches *)

\* a mounted Router, its listener registered on store 1, whose cell holds the
\* counter u32::MAX; the logs and counts of the run start here
InitWrap ==
    /\ stores \in [StoreIds -> UNION {{[entries |-> <<l>>, idx |-> 1] : l \in InitLoc(s)} : s \in StoreIds}]
    /\ \A s \in StoreIds : Location(stores[s]) \in InitLoc(s)
    /\ listening = [s \in StoreIds |-> s = 1]
    /\ props = [history |-> 1, basename |-> None]
    /\ r_status = "active"
    /\ old_basename = None
    /\ navi_ctx = [has |-> TRUE, history |-> 1, basename |-> None]
    /\ loc_ctx = [location |-> Location(stores[1]), ctr |-> U32Max]
    /\ published = [has |-> TRUE, ctx |-> loc_ctx]
    /\ eff_dep = 1
    /\ eff_pending = FALSE
    /\ render_pending = FALSE
    /\ sw = SwIdle
    /\ rec = NoRec
    /\ nav_log = <<>>
    /\ cb_log = <<>>
    /\ n_forced = 0
    /\ n_updates = 0
    /\ n_commits = 0
    /\ io = IoNone
    /\ cx = CxIdle

\* self.ctr + 1 at u32::MAX in a build with overflow checks (debug): the addition
\* panics inside the listener callback the store called for a push; `reduce` is
\* the build without them (release), which wraps
PushOverflowPanics(s, l) ==
    /\ ~render_pending
    /\ n_commits < MaxNav
    /\ listening[s]
    /\ loc_ctx.ctr = U32Max
    /\ stores' = [stores EXCEPT ![s] = Push(@, l)]
    /\ n_commits' = n_commits + 1
    /\ nav_log' = Append(nav_log, l)
    /\ cb_log' = Append(cb_log, history_cb(stores', s))
    /\ r_status' = "failed"
    /\ rec' = NoRec
    /\ sw' = SwIdle
    /\ UNCHANGED <<listening, props, old_basename, navi_ctx, loc_ctx, published,
                   eff_dep, eff_pending, render_pending, n_forced, n_updates, io, cx>>

NextWrap ==
    \/ Next
    \/ \E s \in StoreIds, l \in NavLocs : PushOverflowPanics(s, l)

SpecWrap == InitWrap /\ [][NextWrap]_vars

\* the Routable functions, the basename transform and BrowserRouter's choice of
\* basename, called on their own
NextCodec ==
    \/ \E pathname \in CodecPaths, sockOk \in BOOLEAN : AnyRouteRecognize(pathname, sockOk)
    \/ \E path \in CodecPaths, params \in ParamMaps, sockOk \in BOOLEAN :
           AnyRouteFromPath(path, params, sockOk)
    \/ \E pathname \in CodecPaths : AnyRouteNew(pathname)
    \/ \E R \in DerivedCodecs, pathname \in CodecPaths : DerivedRecognize(R, pathname)
    \/ \E R \in DerivedCodecs : \E pat \in 1..Len(routes(R)), params \in ParamMaps :
           DerivedFromPath(R, pat, params)
    \/ \E sockOk \in BOOLEAN : RoundTrip(sockOk)
    \/ \E b \in Basenames, path \in CodecPaths \ {<<>>} : BasenameRoundTrip(b, path)
    \/ \E basename \in Basenames, base \in BaseUrls, sockOk \in BOOLEAN :
           BrowserRouter(basename, base, sockOk)

SpecCodec == Init /\ [][NextCodec]_vars

---------------------------------------------------------------------------
(* The socket calls, one step each: UdpSocket::bind returns at once, recv_from
   returns when a datagram arrives at the port or the read fails *)

\* base_router is entered (by the parent, or for the re-render a dispatch scheduled)
\* and binds its socket; bound, it waits in recv_from
RouterRenderBind(p, bindOk) ==
    /\ io.op = "none"
    /\ r_status \in {"uninit", "active"}
    /\ \/ ~render_pending /\ ~eff_pending
       \/ r_status = "active" /\ render_pending /\ p = props
    /\ IF bindOk
       THEN /\ io' = [IoNone EXCEPT !.op = "base_router", !.p = p,
                                     !.held = {"base_router"}]
            /\ UNCHANGED <<router_vars, cx>>
       ELSE /\ Render(p, FALSE)
            /\ UNCHANGED <<io, cx>>

\* recv_from returns in base_router and the render goes on
RouterRenderRecv(recvOk) ==
    /\ io.op = "base_router"
    /\ Render(io.p, recvOk)
    /\ io' = IoNone
    /\ UNCHANGED cx

\* Switch is entered and binds its socket; bound, it waits in recv_from
SwitchBind(R, pathname, bindOk) ==
    /\ io.op = "none"
    /\ r_status = "active"
    /\ ~render_pending
    /\ IF bindOk
       THEN /\ io' = [IoNone EXCEPT !.op = "Switch", !.R = R, !.pathname = pathname,
                                     !.held = {"Switch"}]
            /\ UNCHANGED <<router_vars, cx>>
       ELSE /\ SwitchRender(R, pathname, FALSE)
            /\ UNCHANGED <<io, cx>>

\* recv_from returns in Switch and the render goes on
SwitchRecv(recvOk) ==
    /\ io.op = "Switch"
    /\ SwitchRender(io.R, io.pathname, recvOk)
    /\ io' = IoNone
    /\ UNCHANGED cx

\* AnyRoute::recognize or AnyRoute::from_path (with no parameter) is entered and
\* binds its socket; bound, it waits in recv_from
AnyRouteBind(fn, pathname, bindOk) ==
    /\ io.op = "none"
    /\ IF bindOk
       THEN /\ io' = [IoNone EXCEPT !.op = fn, !.R = "AnyRoute",
                                     !.pathname = Some(pathname), !.held = {fn}]
            /\ UNCHANGED cx
       ELSE /\ IF fn = "recognize" THEN AnyRouteRecognizeCall(pathname, FALSE)
               ELSE AnyRouteFromPathCall(pathname, <<>>, FALSE)
            /\ UNCHANGED io
    /\ UNCHANGED router_vars

\* recv_from returns in AnyRoute::recognize or AnyRoute::from_path
AnyRouteRecv(recvOk) ==
    /\ io.op \in {"recognize", "from_path"}
    /\ IF io.op = "recognize" THEN AnyRouteRecognizeCall(io.pathname.v, recvOk)
       ELSE AnyRouteFromPathCall(io.pathname.v, <<>>, recvOk)
    /\ io' = IoNone
    /\ UNCHANGED router_vars

\* the Router, a Switch among its descendants and the calls of AnyRoute, with the
\* socket calls one step each: while a call waits in recv_from nothing else runs on
\* the thread
NextIO ==
    \/ \E p \in RouterProps, bindOk \in BOOLEAN : RouterRenderBind(p, bindOk)
    \/ \E recvOk \in BOOLEAN : RouterRenderRecv(recvOk) /\ n_commits' <= MaxNavSwitch
    \/ \E R \in Codecs, pathname \in Pathnames, bindOk \in BOOLEAN :
           SwitchBind(R, pathname, bindOk)
    \/ \E recvOk \in BOOLEAN : SwitchRecv(recvOk)
    \/ \E fn \in {"recognize", "from_path"}, bindOk \in BOOLEAN :
           AnyRouteBind(fn, Root, bindOk)
    \/ \E recvOk \in BOOLEAN : AnyRouteRecv(recvOk)
    \/ io.op = "none" /\ RouterEffect
    \/ io.op = "none" /\ RouterUnmount
    \/ io.op = "none" /\ n_commits < MaxNavSwitch
           /\ \E s \in StoreIds, l \in NavLocs : HistoryPush(s, l)
    \/ io.op = "none" /\ n_commits < MaxNavSwitch
           /\ \E s \in StoreIds, l \in NavLocs : HistoryReplace(s, l)

SpecIO == Init /\ [][NextIO]_vars

---------------------------------------------------------------------------
(* Switch over AnyRoute, the calls on port 8087 one step each *)

\* UdpSocket::bind("0.0.0.0:8087"): the bind succeeds when no socket of this
\* process is bound to the port (held) and none of another process is (free)
bind(held, free) == held = {} /\ free

\* .unwrap() of a failed socket call in a Switch render: the panic unwinds the
\* render, its sockets are dropped and nothing is rendered
SwitchPanics(pathname) ==
    /\ sw' = [SwIdle EXCEPT !.ran = TRUE, !.R = "AnyRoute", !.pathname = pathname]
    /\ io' = IoNone

\* Switch::<AnyRoute> is entered, under the Router or with no Router above it, and
\* binds its socket; bound, it waits in recv_from
SwitchAnyRouteBind(pathname, free) ==
    /\ io.op = "none"
    /\ r_status \in {"uninit", "active"}
    /\ ~render_pending
    /\ IF bind(io.held, free)
       THEN /\ io' = [IoNone EXCEPT !.op = "Switch", !.R = "AnyRoute",
                                     !.pathname = pathname, !.held = {"Switch"}]
            /\ sw' = SwIdle
       ELSE SwitchPanics(pathname)
    /\ rec' = NoRec
    /\ UNCHANGED <<stores, listening, props, r_status, old_basename, navi_ctx, loc_ctx,
                   published, eff_dep, eff_pending, render_pending, nav_log, cb_log,
                   n_forced, n_updates, n_commits, cx>>

\* recv_from returns in Switch::<AnyRoute>; socket lives on to the end of the function
SwitchAnyRouteRecv(recvOk) ==
    /\ io.op = "Switch" /\ io.R = "AnyRoute"
    /\ IF recvOk
       THEN /\ io' = [io EXCEPT !.op = "use_route"]
            /\ UNCHANGED sw
       ELSE SwitchPanics(io.pathname)
    /\ UNCHANGED <<stores, listening, props, r_status, old_basename, navi_ctx, loc_ctx,
                 published, eff_dep, eff_pending, render_pending, rec,
                 nav_log, cb_log, n_forced, n_updates, n_commits, cx>>

\* let route = use_route::<R>(): under a Router the Location's path is resolved with
\* AnyRoute::recognize, whose first statement binds the port; with no Router above,
\* use_route returns None
SwitchAnyRouteUseRoute(free) ==
    /\ io.op = "use_route"
    /\ IF navi_ctx.has /\ published.has
       THEN IF bind(io.held, free)
            THEN /\ io' = [io EXCEPT !.op = "use_route.recognize",
                                     !.held = @ \cup {"recognize"}]
                 /\ UNCHANGED <<sw, cx>>
            ELSE /\ SwitchPanics(io.pathname)
                 /\ AnyRouteRecognizeCall(
                        strip_basename(navi_ctx.basename, published.ctx.location.path),
                        FALSE)
       ELSE /\ io' = [io EXCEPT !.op = "resolve", !.route = NoRoute]
            /\ UNCHANGED <<sw, cx>>
    /\ UNCHANGED <<stores, listening, props, r_status, old_basename, navi_ctx, loc_ctx,
                 published, eff_dep, eff_pending, render_pending, rec,
                 nav_log, cb_log, n_forced, n_updates, n_commits>>

\* props.pathname.as_ref().and_then(|p| R::recognize(p)).or(route), then the match:
\* with a pathname AnyRoute::recognize is called and binds the port
SwitchAnyRouteResolve(free) ==
    /\ io.op = "resolve"
    /\ IF io.pathname.some
       THEN IF bind(io.held, free)
            THEN /\ io' = [io EXCEPT !.op = "resolve.recognize",
                                     !.held = @ \cup {"recognize"}]
                 /\ UNCHANGED <<sw, cx>>
            ELSE /\ SwitchPanics(io.pathname)
                 /\ AnyRouteRecognizeCall(io.pathname.v, FALSE)
       ELSE /\ sw' = [ran |-> TRUE, done |-> TRUE, R |-> "AnyRoute",
                      pathname |-> io.pathname, ctx_route |-> io.route,
                      route |-> io.route,
                      emitted |-> switch_match(io.route).emitted,
                      warns |-> switch_match(io.route).warns,
                      html |-> switch_match(io.route).html]
            /\ io' = IoNone
            /\ UNCHANGED cx
    /\ UNCHANGED <<stores, listening, props, r_status, old_basename, navi_ctx, loc_ctx,
                 published, eff_dep, eff_pending, render_pending, rec,
                 nav_log, cb_log, n_forced, n_updates, n_commits>>

\* the Router, with a Switch over AnyRoute under it or beside it
NextPort ==
    \/ io.op = "none" /\ Next /\ n_commits' <= MaxNavSwitch
    \/ \E pathname \in Pathnames, free \in BOOLEAN : SwitchAnyRouteBind(pathname, free)
    \/ \E recvOk \in BOOLEAN : SwitchAnyRouteRecv(recvOk)
    \/ \E free \in BOOLEAN : SwitchAnyRouteUseRoute(free)
    \/ \E free \in BOOLEAN : SwitchAnyRouteResolve(free)

SpecPort == Init /\ [][NextPort]_vars

---------------------------------------------------------------------------
(* Byte strings of the stream handlers: a datagram, and every String built  *)
(* from it, is a sequence of bytes; the model's datagrams are ASCII.        *)

\* s.find(p), as the 1-based index of the first occurrence; 0 for None
Find(s, p) ==
    LET hits == {i \in 1..(Len(s) - Len(p) + 1) :
                    \A k \in 1..Len(p) : s[i + k - 1] = p[k]}
    IN IF hits = {} THEN 0 ELSE CHOOSE i \in hits : \A j \in hits : i <= j

\* s.contains(p)
Contains(s, p) == Find(s, p) # 0

\* the bytes of s from the 1-based index i on
From(s, i) == SubSeq(s, i, Len(s))

\* s.split(p).next(): s up to the first occurrence of p
SplitNext(s, p) == IF Contains(s, p) THEN SubSeq(s, 1, Find(s, p) - 1) ELSE s

\* s.split(p).nth(1), as an Option: what lies between the first occurrence of p and
\* the next one
SplitNth1(s, p) ==
    IF Contains(s, p) THEN Some(SplitNext(From(s, Find(s, p) + Len(p)), p)) ELSE None


RECURSIVE Decimal(_)
\* format!("{}", n) of an unsigned integer
Decimal(n) == IF n < 10 THEN <<48 + n>> ELSE Decimal(n \div 10) \o <<48 + (n % 10)>>

\* "::"
Sep == <<58, 58>>

\* the text of one field that no later step reads
Field == <<256>>

---------------------------------------------------------------------------
(* command_engine *)

\* the letters shifted by 13 and the digits by 5
rot(ascii) ==
    IF ascii >= 65 /\ ascii <= 90 THEN ((ascii - 65 + 13) % 26) + 65
    ELSE IF ascii >= 97 /\ ascii <= 122 THEN ((ascii - 97 + 13) % 26) + 97
    ELSE IF ascii >= 48 /\ ascii <= 57 THEN ((ascii - 48 + 5) % 10) + 48
    ELSE ascii

RECURSIVE marked(_, _)
\* the position-based markers: '_' before every third byte, '#' after every fifth
marked(encoded, i) ==
    IF i >= Len(encoded) THEN <<>>
    ELSE (IF i % 3 = 0 THEN <<95>> ELSE <<>>) \o <<encoded[i + 1]>>
         \o (IF i % 5 = 0 THEN <<35>> ELSE <<>>) \o marked(encoded, i + 1)

\* parse_app_request: the markers over the encoded `reversed::data`, then the
\* checksum, the most frequent byte, the pattern and the length
parse_app_request(command_data) ==
    LET reversed == [i \in 1..Len(command_data) |->
                         command_data[Len(command_data) + 1 - i]]
        transformed_data == reversed \o Sep \o command_data
        encoded == [i \in 1..Len(transformed_data) |-> rot(transformed_data[i])]
    IN marked(encoded, 0) \o Sep \o Field \o Sep \o Field \o Sep \o Field \o Sep \o Field

\* the substitution cipher: every letter three places back in its alphabet
substituted_char(c) ==
    IF c >= 97 /\ c <= 122 THEN ((c - 97 + 23) % 26) + 97
    ELSE IF c >= 65 /\ c <= 90 THEN ((c - 65 + 23) % 26) + 65
    ELSE c

RECURSIVE interleaved(_, _)
\* '+' before every second byte, '*' after every fourth
interleaved(substituted, i) ==
    IF i >= Len(substituted) THEN <<>>
    ELSE (IF i % 2 = 0 THEN <<43>> ELSE <<>>) \o <<substituted[i + 1]>>
         \o (IF i % 4 = 0 THEN <<42>> ELSE <<>>) \o interleaved(substituted, i + 1)

\* ascii ^ ((1 << 2) | (1 << 4)) for the printable bytes
manipulated(ascii) ==
    IF ascii >= 32 /\ ascii <= 126
    THEN ascii + (IF (ascii \div 4) % 2 = 0 THEN 4 ELSE -4)
               + (IF (ascii \div 16) % 2 = 0 THEN 16 ELSE -16)
    ELSE ascii

\* enrich_app_context: parts[0] substituted, interleaved and bit-manipulated, then
\* the frequency summary, the entropy twice and parts[1..]
enrich_app_context(processed_data) ==
    IF Contains(processed_data, Sep)
    THEN LET encoded_part == SplitNext(processed_data, Sep)
             substituted == [i \in 1..Len(encoded_part) |->
                                substituted_char(encoded_part[i])]
             il == interleaved(substituted, 0)
             bit_manipulated == [i \in 1..Len(il) |-> manipulated(il[i])]
         IN bit_manipulated \o Sep \o Field \o Sep \o Field \o Sep \o Field \o Sep
                \o From(processed_data, Find(processed_data, Sep) + Len(Sep))
    ELSE processed_data

RECURSIVE cleaned(_, _, _)
\* '+' and '*' removed, each with the byte that follows it
cleaned(reverse_bit, i, skip_next) ==
    IF i > Len(reverse_bit) THEN <<>>
    ELSE IF reverse_bit[i] = 43 \/ reverse_bit[i] = 42
         THEN cleaned(reverse_bit, i + 1, TRUE)
         ELSE (IF skip_next THEN <<>> ELSE <<reverse_bit[i]>>)
              \o cleaned(reverse_bit, i + 1, FALSE)

\* the reverse substitution: every letter three places on in its alphabet
reverse_char(c) ==
    IF c >= 97 /\ c <= 122 THEN ((c - 97 + 3) % 26) + 97
    ELSE IF c >= 65 /\ c <= 90 THEN ((c - 65 + 3) % 26) + 65
    ELSE c

\* prepare_app_execution: with three parts or more, parts[0] taken back through the
\* steps of enrich_app_context and parse_app_request, and of the result what
\* follows its first "::"
prepare_app_execution(enriched_data) ==
    IF Contains(enriched_data, Sep)
          /\ Contains(From(enriched_data, Find(enriched_data, Sep) + Len(Sep)), Sep)
    THEN LET manipulated_part == SplitNext(enriched_data, Sep)
             reverse_bit == [i \in 1..Len(manipulated_part) |->
                                manipulated(manipulated_part[i])]
             cl == cleaned(reverse_bit, 1, FALSE)
             reverse_substituted == [i \in 1..Len(cl) |-> reverse_char(cl[i])]
             reverse_encoded == [i \in 1..Len(reverse_substituted) |->
                                    rot(reverse_substituted[i])]
             original_part == SplitNth1(reverse_encoded, Sep)
         IN IF original_part.some THEN original_part.v ELSE reverse_encoded
    ELSE enriched_data

\* the data handle_command_operations hands to its two sinks
command_final_data(command_data) ==
    prepare_app_execution(enrich_app_context(parse_app_request(command_data)))

\* CString::new(bytes): an error for a byte string with an interior NUL
CString_new(bytes) == IF \E i \in 1..Len(bytes) : bytes[i] = 0 THEN None ELSE Some(bytes)

---------------------------------------------------------------------------
(* component_engine *)

\* "yew_renderer_"
YewRenderer == <<121, 101, 119, 95, 114, 101, 110, 100, 101, 114, 101, 114, 95>>

\* "button"
Button == <<98, 117, 116, 116, 111, 110>>

\* "yew_operation_"
YewOperation == <<121, 101, 119, 95, 111, 112, 101, 114, 97, 116, 105, 111, 110, 95>>

\* "html_"
Html_ == <<104, 116, 109, 108, 95>>

\* " -- ENRICHED"
Enriched == <<32, 45, 45, 32, 69, 78, 82, 73, 67, 72, 69, 68>>

\* parse_component_request
parse_component_request(component_data) ==
    LET
        \* "input"
        Input == <<105, 110, 112, 117, 116>>
        \* "div"
        Div == <<100, 105, 118>>
        \* "_button_component"
        ButtonComponent == <<95, 98, 117, 116, 116, 111, 110, 95, 99, 111, 109, 112,
            111, 110, 101, 110, 116>>
        \* "_input_component"
        InputComponent == <<95, 105, 110, 112, 117, 116, 95, 99, 111, 109, 112, 111,
            110, 101, 110, 116>>
        \* "_div_component"
        DivComponent == <<95, 100, 105, 118, 95, 99, 111, 109, 112, 111, 110, 101, 110,
            116>>
        \* "_generic_component"
        GenericComponent == <<95, 103, 101, 110, 101, 114, 105, 99, 95, 99, 111, 109,
            112, 111, 110, 101, 110, 116>>
        \* "_operation"
        Operation == <<95, 111, 112, 101, 114, 97, 116, 105, 111, 110>>
        \* " -- CONCAT_TYPE=VIRTUAL_DOM_STATE -- STATE_SIZE="
        ConcatType == <<32, 45, 45, 32, 67, 79, 78, 67, 65, 84, 95, 84, 89, 80, 69, 61,
            86, 73, 82, 84, 85, 65, 76, 95, 68, 79, 77, 95, 83, 84, 65, 84, 69, 32, 45,
            45, 32, 83, 84, 65, 84, 69, 95, 83, 73, 90, 69, 61>>
        \* " -- COMPONENT_PRESERVED"
        ComponentPreserved == <<32, 45, 45, 32, 67, 79, 77, 80, 79, 78, 69, 78, 84, 95,
            80, 82, 69, 83, 69, 82, 86, 69, 68>>
    IN YewRenderer \o component_data
           \o (IF Contains(component_data, Button) THEN ButtonComponent
               ELSE IF Contains(component_data, Input) THEN InputComponent
               ELSE IF Contains(component_data, Div) THEN DivComponent
               ELSE GenericComponent)
           \o Operation \o ConcatType \o Decimal(Len(component_data))
           \o ComponentPreserved

\* enrich_component_context: &processed_data[state_start..state_end], four times
enrich_component_context(processed_data) ==
    LET
        \* "_virtual_dom"
        VirtualDom == <<95, 118, 105, 114, 116, 117, 97, 108, 95, 100, 111, 109>>
        \* "_css_"
        Css_ == <<95, 99, 115, 115, 95>>
        \* "_js_"
        Js_ == <<95, 106, 115, 95>>
        \* "_wasm_"
        Wasm_ == <<95, 119, 97, 115, 109, 95>>
        \* "=MULTI_YEW -- VECTORS=4 -- COMPLEXITY=HIGH"
        EnrichedTail == <<61, 77, 85, 76, 84, 73, 95, 89, 69, 87, 32, 45, 45, 32, 86,
            69, 67, 84, 79, 82, 83, 61, 52, 32, 45, 45, 32, 67, 79, 77, 80, 76, 69, 88,
            73, 84, 89, 61, 72, 73, 71, 72>>
        state_start == (IF Contains(processed_data, YewRenderer)
                        THEN Find(processed_data, YewRenderer) - 1 ELSE 0) + 12
        state_end == IF Contains(processed_data, VirtualDom)
                     THEN Find(processed_data, VirtualDom) - 1 ELSE Len(processed_data)
        component_state == SubSeq(processed_data, state_start + 1, state_end)
    IN YewOperation \o Html_ \o component_state \o Css_ \o component_state
           \o Js_ \o component_state \o Wasm_ \o component_state
           \o Enriched \o EnrichedTail

\* prepare_component_execution: the core component state
prepare_component_execution(enriched_data) ==
    LET
        \* "_css"
        Css == <<95, 99, 115, 115>>
        op_start == IF Contains(enriched_data, YewOperation)
                    THEN Find(enriched_data, YewOperation) - 1 ELSE 0
        op_end == IF Contains(enriched_data, Enriched)
                  THEN Find(enriched_data, Enriched) - 1 ELSE Len(enriched_data)
        complex_operation == SubSeq(enriched_data, op_start + 1, op_end)
        after_html == SplitNth1(complex_operation, Html_)
    IN IF after_html.some THEN SplitNext(after_html.v, Css) ELSE complex_operation

\* the data handle_component_operations hands to its two sinks
component_final_data(component_data) ==
    prepare_component_execution(enrich_component_context(
        parse_component_request(component_data)))

\* let mut dst: [u8; 1024]
DstSize == 1024

---------------------------------------------------------------------------
(* The stream handlers *)

\* let mut buffer = [0u8; 1024]
BufferSize == 1024

\* the longest command datagram of the model
MaxDatagram == 3

\* the datagrams process_command_stream receives, of the bytes NUL, '/', 'a', 'x'
CommandDatagrams == UNION {[1..n -> {0, 47, 97, 120}] : n \in 1..MaxDatagram}

\* the datagrams process_component_stream receives: "css", "button", "html_" or
\* nothing, then a run of 'a', of 1 to 1024 bytes in all
ComponentDatagrams ==
    {d \in {head \o [i \in 1..n |-> 97] :
                head \in {<<>>, <<99, 115, 115>>, Button, Html_},
                n \in {1, 921, 922, 1018, 1024}} : Len(d) <= BufferSize}

\* a socket or stream read: an error, or the bytes read (none: a read of 0 bytes)
Reads(datagrams) == {None, Some(<<>>)} \cup {Some(d) : d \in datagrams}

\* match handle_*_operations(data) { Ok(result) => Ok(result),
\*                                   Err(e) => Err(format!("... engine error: {}", e)) }
handler_result(engine_result) == IF engine_result = "Ok" THEN "Ok" ELSE "EngineErr"

\* the handler returns Err before it has any data
ReturnsErr(fn) == [HIdle EXCEPT !.fn = fn, !.pc = "returned", !.result = "Err"]

\* handle_file_operations: Ok(format!(..)) on its only path; the three file
\* operations' results are dropped
handle_file_operations(file_data) == "Ok"

\* an execve that returns whatever it did
execve_returns_always(success) == TRUE

\* execve returns only when it failed: a successful call replaces the process image
execve_returns(success) == ~success

\* whether an exec call for this path can succeed: no file has the empty path
exec_outcomes(path) == IF path = <<>> THEN {FALSE} ELSE BOOLEAN

\* process_command_stream: UdpSocket::bind("127.0.0.1:8081")
CommandBind(bindOk) ==
    /\ cx.h.pc \in {"idle", "returned"}
    /\ cx' = [CxIdle EXCEPT !.h =
                 IF bindOk
                 THEN [HIdle EXCEPT !.fn = "process_command_stream", !.pc = "recv"]
                 ELSE ReturnsErr("process_command_stream")]
    /\ UNCHANGED <<router_vars, io>>

\* process_command_stream: socket.recv(&mut buffer), and with data the call of
\* handle_command_operations up to its first sink
CommandRecv(r) ==
    /\ cx.h.fn = "process_command_stream" /\ cx.h.pc = "recv"
    /\ cx' = [cx EXCEPT !.h =
                 IF r.some /\ Len(r.v) > 0
                 THEN [@ EXCEPT !.pc = "execve", !.read_result = Len(r.v),
                                !.data = r.v, !.engine = TRUE,
                                !.final_data = command_final_data(r.v)]
                 ELSE ReturnsErr("process_command_stream")]
    /\ UNCHANGED <<router_vars, io>>

\* execute_component_lifecycle_operation: CString::new(..).unwrap(), then execve
CommandExecve(success) ==
    /\ cx.h.fn = "process_command_stream" /\ cx.h.pc = "execve"
    /\ success \in exec_outcomes(cx.h.final_data)
    /\ cx' = [cx EXCEPT !.h =
                 IF ~CString_new(cx.h.final_data).some
                 THEN [@ EXCEPT !.pc = "panicked"]
                 ELSE IF execve_returns(success)
                 THEN [@ EXCEPT !.pc = "execvp",
                                !.execve = IF success THEN "succeeded" ELSE "failed"]
                 ELSE [@ EXCEPT !.pc = "replaced", !.execve = "succeeded"]]
    /\ UNCHANGED <<router_vars, io>>

\* execute_virtual_dom_operation: CString::new(..).unwrap(), then execvp; when it
\* returns, handle_command_operations returns Ok and so does the handler
CommandExecvp(success) ==
    /\ cx.h.fn = "process_command_stream" /\ cx.h.pc = "execvp"
    /\ success \in exec_outcomes(cx.h.final_data)
    /\ cx' = [cx EXCEPT !.h =
                 IF execve_returns(success)
                 THEN [@ EXCEPT !.pc = "returned", !.result = handler_result("Ok"),
                                !.execvp = IF success THEN "succeeded" ELSE "failed"]
                 ELSE [@ EXCEPT !.pc = "replaced", !.execvp = "succeeded"]]
    /\ UNCHANGED <<router_vars, io>>

\* process_file_stream: TcpStream::connect("127.0.0.1:8080")
FileConnect(connectOk) ==
    /\ cx.h.pc \in {"idle", "returned"}
    /\ cx' = [CxIdle EXCEPT !.h =
                 IF connectOk
                 THEN [HIdle EXCEPT !.fn = "process_file_stream", !.pc = "read"]
                 ELSE ReturnsErr("process_file_stream")]
    /\ UNCHANGED <<router_vars, io>>

\* process_file_stream: stream.read(&mut buffer), and with data the call of
\* handle_file_operations
FileRead(r) ==
    /\ cx.h.fn = "process_file_stream" /\ cx.h.pc = "read"
    /\ cx' = [cx EXCEPT !.h =
                 IF r.some /\ Len(r.v) > 0
                 THEN [@ EXCEPT !.pc = "returned", !.read_result = Len(r.v),
                                !.data = r.v, !.engine = TRUE,
                                !.result = handler_result(handle_file_operations(r.v))]
                 ELSE ReturnsErr("process_file_stream")]
    /\ UNCHANGED <<router_vars, io>>

\* process_component_stream: recvfrom(mock_socket, &mut buffer, ..), and with data
\* the call of handle_component_operations up to its first sink; r is None for
\* SOCKET_ERROR
ComponentRecvfrom(r) ==
    /\ cx.h.pc \in {"idle", "returned"}
    /\ cx' = [CxIdle EXCEPT !.h =
                 IF r.some /\ Len(r.v) > 0
                 THEN [HIdle EXCEPT !.fn = "process_component_stream", !.pc = "copy",
                                    !.read_result = Len(r.v), !.data = r.v,
                                    !.engine = TRUE,
                                    !.final_data = component_final_data(r.v)]
                 ELSE ReturnsErr("process_component_stream")]
    /\ UNCHANGED <<router_vars, io>>

\* execute_component_copy: ptr::copy_nonoverlapping(src, dst, component_expr.len())
\* into dst: [u8; 1024], then execute_component_init and the return of Ok; a copy
\* of more than 1024 bytes writes past dst, after which the process goes on or dies
ComponentCopy(dies) ==
    /\ cx.h.fn = "process_component_stream" /\ cx.h.pc = "copy"
    /\ LET size == Len(cx.h.final_data)
       IN /\ dies => size > DstSize
          /\ cx' = [cx EXCEPT !.h =
                       IF dies
                       THEN [@ EXCEPT !.pc = "crashed", !.size = size]
                       ELSE [@ EXCEPT !.pc = "returned", !.size = size,
                                      !.result = handler_result("Ok")]]
    /\ UNCHANGED <<router_vars, io>>

\* the process that calls the stream handlers, one call after the other
NextStream ==
    \/ \E bindOk \in BOOLEAN : CommandBind(bindOk)
    \/ \E r \in Reads(CommandDatagrams) : CommandRecv(r)
    \/ \E success \in BOOLEAN : CommandExecve(success)
    \/ \E success \in BOOLEAN : CommandExecvp(success)
    \/ \E connectOk \in BOOLEAN : FileConnect(connectOk)
    \/ \E r \in Reads({<<47, 97>>, <<97>>}) : FileRead(r)
    \/ \E r \in Reads(ComponentDatagrams) : ComponentRecvfrom(r)
    \/ \E dies \in BOOLEAN : ComponentCopy(dies)

SpecStream == Init /\ [][NextStream]_vars

---------------------------------------------------------------------------
(* Properties of the Router's reactive location *)

\* the Router is mounted and no re-render is outstanding
Quiescent == r_status = "active" /\ ~render_pending

\* C1: while the Router is mounted with its listener registered, every change event
\* of the store yields a reactive value whose counter is exactly one greater than the
\* previous one's and whose Location is the store's current Location, and that value
\* is the one handed to the subscribers once the re-render it schedules has run.
C1_ChangeEventDispatched ==
    /\ [][(r_status = "active" /\ Len(nav_log') = Len(nav_log) + 1)
            => /\ OneGreater(loc_ctx.ctr, loc_ctx'.ctr)
               /\ loc_ctx'.location = Location(stores'[eff_dep])
               /\ listening[eff_dep]
               /\ (render_pending' \/ published'.ctx = loc_ctx')]_vars
    /\ [](Quiescent => published.has /\ published.ctx = loc_ctx)

\* a navigation was heard and its value has reached the subscribers
C1_Witness ==
    /\ Quiescent
    /\ Len(nav_log) >= 1
    /\ published.ctx.location = nav_log[Len(nav_log)]
    /\ published.ctx.ctr = U32(Len(nav_log) + n_forced)

C3_ListenerCompleteness == cb_log = nav_log

\* two navigations to different Locations were heard, in order
C3_Witness == Len(cb_log) = 2 /\ cb_log[1] # cb_log[2] /\ cb_log = nav_log

\* C4: after the Router is torn down no navigation on any store reaches the reactive
\* cell: its revision and Location stay as they were and no listener is registered.
C4_UnsubscribeFinality ==
    /\ [][r_status = "destroyed" => loc_ctx' = loc_ctx /\ cb_log' = cb_log]_vars
    /\ [](r_status = "destroyed" => \A s \in StoreIds : ~listening[s])

\* the store the Router listened to has moved on after the teardown
C4_Witness ==
    /\ r_status = "destroyed"
    /\ eff_dep # 0
    /\ loc_ctx.location # Location(stores[eff_dep])

\* C5: no state has an unmounted or failed Router with its listener still registered.
C5_ListenerReleasedOnEveryExit ==
    r_status \in {"destroyed", "failed"} => \A s \in StoreIds : ~listening[s]

\* C6 as stated: a render whose basename differs from the applied one strips the
\* applied (old) basename, prefixes the new one, and replaces iff the result differs
\* from the store's path.
C6_RehomeStripsOld ==
    rec.ran =>
        LET target == prefix_basename(rec.new, strip_basename(rec.old, rec.from.path))
        IN /\ rec.issued <=> target # rec.from.path
           /\ rec.issued => Location(stores[props.history]).path = target

\* C6 as amended: the basename stripped is the applied one if there is one, and the
\* newly configured basename itself if none was applied.
C6_RehomeStripsOldOrNew ==
    rec.ran =>
        LET strip == IF rec.old.some THEN rec.old ELSE rec.new
            target == prefix_basename(rec.new, strip_basename(strip, rec.from.path))
        IN /\ rec.issued <=> target # rec.from.path
           /\ rec.issued => Location(stores[props.history]).path = target

\* a path under one basename was re-homed under another
C6_Witness ==
    /\ rec.ran /\ rec.issued /\ rec.old.some /\ rec.new.some
    /\ StartsWith(rec.from.path, rec.old.v)
    /\ StartsWith(Location(stores[props.history]).path, rec.new.v)

---------------------------------------------------------------------------
(* Properties of the Switch *)

\* the route of the Location the Router handed down, as the Switch that just ran saw it
LocationRoute ==
    recognize(sw.R, strip_basename(navi_ctx.basename, published.ctx.location.path))

\* what recognize makes of the pathname prop of the Switch that just ran
OverrideRoute == IF sw.pathname.some THEN recognize(sw.R, sw.pathname.v) ELSE NoRoute

\* C7 as stated: a supplied pathname alone decides the resolution; the Location is
\* used only when no pathname is supplied.
C7_OverrideAloneDecides ==
    sw.done => sw.route = IF sw.pathname.some THEN OverrideRoute ELSE LocationRoute

\* C7 as amended: a supplied pathname that recognize accepts decides the resolution;
\* with no pathname, or one that recognize rejects, the Location's route is used.
C7_OverrideThenLocation ==
    sw.done => sw.route = IF OverrideRoute.some THEN OverrideRoute ELSE LocationRoute

\* a rejected pathname, and the Switch rendered the Location's route
C7_Witness ==
    /\ sw.done /\ sw.pathname.some /\ ~OverrideRoute.some
    /\ sw.route.some /\ sw.route = LocationRoute

C9_NotFoundPolicy ==
    (sw.done /\ ~OverrideRoute.some /\ ~LocationRoute.some)
        => IF not_found_route(sw.R).some
           THEN sw.emitted = <<not_found_route(sw.R)>> /\ sw.warns = 0
           ELSE sw.emitted = <<>> /\ sw.warns = 1 /\ sw.html = HtmlDefault

\* C10: a successful resolution invokes the callback exactly once with the resolved
\* route, returns what the callback returned, and logs nothing.
C10_SuccessfulResolution ==
    (sw.done /\ (OverrideRoute.some \/ LocationRoute.some))
        => /\ sw.emitted = <<IF OverrideRoute.some THEN OverrideRoute ELSE LocationRoute>>
           /\ sw.html = render_emit(sw.emitted[1])
           /\ sw.warns = 0

\* a route with a parameter was rendered
C10_Witness ==
    /\ sw.done /\ Len(sw.emitted) = 1 /\ sw.emitted[1].params # <<>>
    /\ sw.html = render_emit(sw.emitted[1])

---------------------------------------------------------------------------
(* Properties of the Route Codec *)

C12_FromPathBuildsIffSupplied ==
    (cx.op = "from_path" /\ cx.done) =>
        LET tokens == IF cx.R = "AnyRoute" THEN AnyRoute_routes[1]
                      ELSE routes(cx.R)[cx.pat]
        IN cx.out.some <=> (required(tokens) \subseteq supplied(cx.params))

\* C13: recognize returns a route only if the pathname matches one of the patterns
\* routes() lists (the route is the case of a pattern that matches), and none if no
\* listed pattern matches; routes() is the same list at every call
C13_RecognizeOnlyDeclared ==
    (cx.op = "recognize" /\ cx.done) =>
        LET hits == {i \in 1..Len(Routable_routes(cx.R)) : Matches(cx.R, i, cx.pathname)}
        IN /\ cx.out.some => cx.out.case \in hits
           /\ hits = {} => ~cx.out.some

\* AnyRoute::recognize returned a route for /a/b, which its pattern /*path matches
C13_Witness ==
    /\ cx.op = "recognize" /\ cx.done
    /\ cx.R = "AnyRoute" /\ cx.pathname = PathAB
    /\ cx.out.some
    /\ Matches("AnyRoute", cx.out.case, PathAB)

\* C14: a pattern ending in a catch-all matches a pathname with no trailing segment
\* (the captured value is empty) and one with many (the captured value keeps the
\* slashes between them); AnyRoute::recognize succeeds on every pathname, / and
\* /a/b/c among them, and to_path of the route is the pathname
C14_CatchAllGreedy ==
    (cx.op = "recognize" /\ cx.done) =>
        IF cx.R = "AnyRoute"
        THEN cx.out.some /\ AnyRoute_to_path(cx.out) = cx.pathname
        ELSE \A i \in 1..Len(routes(cx.R)) :
                LET tokens == routes(cx.R)[i]
                    n == Len(tokens)
                    segs == Segments(cx.pathname)
                IN (/\ n >= 1
                    /\ tokens[n].k = "catch"
                    /\ Len(segs) >= n - 1
                    /\ Match(SubSeq(tokens, 1, n - 1), SubSeq(segs, 1, n - 1)).ok
                    /\ \A j \in 1..(i - 1) : ~Matches(cx.R, j, cx.pathname))
                   => /\ cx.out.some
                      /\ cx.out.case = i
                      /\ ParamValue(cx.out.params, tokens[n].s)
                             = Join(SubSeq(segs, n, Len(segs)))

\* AnyRoute::recognize was given /, the pathname with no segment, and the route's
\* to_path is /
C14_Witness ==
    /\ cx.op = "recognize" /\ cx.done
    /\ cx.R = "AnyRoute" /\ cx.pathname = Root
    /\ cx.out.some
    /\ AnyRoute_to_path(cx.out) = Root

\* C15: the patterns are tried in declaration order: a pathname that several
\* patterns match resolves to the case of the one declared first, with the values
\* that pattern captures, and a pattern that fails part-way is passed over for the
\* next one
C15_FirstMatchPriority ==
    (cx.op = "recognize" /\ cx.done) =>
        \A i \in 1..Len(Routable_routes(cx.R)) :
            (/\ Matches(cx.R, i, cx.pathname)
             /\ \A j \in 1..(i - 1) : ~Matches(cx.R, j, cx.pathname))
            => /\ cx.out.some
               /\ cx.out.case = i
               /\ cx.R \in DerivedCodecs =>
                      cx.out.params = Match(routes(cx.R)[i], Segments(cx.pathname)).params

\* /a/b, which /a/:id and /a/*rest both match, resolved to the case of /a/:id
C15_Witness ==
    /\ cx.op = "recognize" /\ cx.done
    /\ cx.R = "Users" /\ cx.pathname = PathAB
    /\ Matches("Users", 1, PathAB) /\ Matches("Users", 2, PathAB)
    /\ cx.out = Route(1, << <<"id", <<"b">> >> >>)

---------------------------------------------------------------------------
(* Properties of the basename transform *)

\* C16: for any basename, none included, and any application-relative path p,
\* strip_basename(prefix_basename(p)) = p
C16_BasenameIdempotence ==
    (cx.op = "basename" /\ cx.done) => cx.path_out = cx.pathname

\* the path /a/b, which itself leads with the basename /a, was prefixed and stripped
C16_Witness ==
    /\ cx.op = "basename" /\ cx.done
    /\ cx.basename = Some(PathA)
    /\ cx.pathname = PathAB
    /\ cx.path_out = PathAB

---------------------------------------------------------------------------
(* Properties of the published values and of the reconciliation *)

\* C17: the published values are compared by their counter alone: every navigation
\* heard, one to the Location the cell already holds included, leaves a value that
\* compares unequal to the one before it, and the subscribers are notified by a
\* render exactly when the counter of the value handed down differs from the
\* counter of the value they had.
C17_CounterDecidesEquality ==
    /\ [][(r_status = "active" /\ Len(nav_log') = Len(nav_log) + 1)
            => ~LocationContext_eq(loc_ctx, loc_ctx')]_vars
    /\ [][(published.has /\ published'.has)
            => /\ n_updates' \in {n_updates, n_updates + 1}
               /\ (n_updates' = n_updates + 1)
                      <=> (published'.ctx.ctr # published.ctx.ctr)]_vars

\* two successive navigations to the same Location were heard and the subscribers
\* were notified of both
C17_Witness ==
    /\ Quiescent
    /\ Len(nav_log) = 2
    /\ nav_log[1] = nav_log[2]
    /\ published.ctx.location = nav_log[2]
    /\ n_updates = 2 + n_forced

\* C18: a render that reconciles the basename changes the stores only by the replace
\* it issues on its own store: no store gains or loses an entry and no store's
\* current entry moves.
C18_ReconciliationReplaces ==
    [][rec'.ran
        => /\ \A s \in StoreIds :
                  /\ Len(stores'[s].entries) = Len(stores[s].entries)
                  /\ stores'[s].idx = stores[s].idx
           /\ \A s \in StoreIds \ {props'.history} : stores'[s] = stores[s]
           /\ stores'[props'.history] =
                  IF rec'.issued
                  THEN Replace(stores[props'.history], Loc(rec'.to, rec'.from.query))
                  ELSE stores[props'.history]]_vars

\* a reconciliation replaced the path of the second of two entries
C18_Witness ==
    /\ rec.ran /\ rec.issued
    /\ n_commits = 2
    /\ Len(stores[props.history].entries) = 2
    /\ stores[props.history].idx = 2
    /\ Location(stores[props.history]).path = rec.to
    /\ rec.to # rec.from.path

\* C19: when a render in which the basename changed hands the Navigator and Location
\* contexts to its children, the reconciliation is over: the new basename is the
\* applied one and the Navigator's, the replace (if one was issued) is in the store,
\* and the Location context is the cell as the reconciliation left it, which holds
\* the re-homed path when the cell was initialised by this render or the listener
\* heard the replace.
C19_ReconciledBeforeProvided ==
    rec.ran =>
        /\ old_basename = rec.new
        /\ navi_ctx.has /\ navi_ctx.basename = rec.new
        /\ rec.issued => Location(stores[props.history]).path = rec.to
        /\ published.has /\ published.ctx = loc_ctx
        /\ (rec.issued /\ (eff_dep = 0 \/ listening[props.history]))
              => published.ctx.location.path = rec.to

\* a later render changed the basename, the listener heard the replace, and the
\* children were handed the re-homed Location
C19_Witness ==
    /\ rec.ran /\ rec.issued
    /\ eff_dep = props.history
    /\ listening[props.history]
    /\ rec.from.path # rec.to
    /\ published.ctx.location.path = rec.to
    /\ navi_ctx.basename = rec.new

---------------------------------------------------------------------------
(* Properties of the thread *)

\* C20: no routing operation waits on the network or on any other external input:
\* no Router render, Switch render, recognize or from_path call is ever waiting for
\* a datagram.
C20_NoBlockingIO == io.op = "none"

---------------------------------------------------------------------------
(* Properties of the Router: basename, synchronisation, listener *)

\* C21: the only path a render hands to the History Store is the output of
\* prefix_basename under the basename it was configured with: right after a
\* reconciliation with basename b the store's path is that prefixed path, and it
\* begins with b.
C21_BasenameNeverBypassed ==
    rec.ran =>
        LET path == Location(stores[props.history]).path
            stripped == strip_basename(IF rec.old.some THEN rec.old ELSE rec.new,
                                       rec.from.path)
        IN /\ rec.new = configured_basename(props.basename)
           /\ rec.to = prefix_basename(rec.new, stripped)
           /\ path = rec.to
           /\ rec.new.some => StartsWith(path, rec.new.v)

\* a path under the basename /a was re-homed under /b by a replace
C21_Witness ==
    /\ rec.ran /\ rec.issued
    /\ rec.old = Some(PathA) /\ rec.new = Some(PathB)
    /\ Location(stores[props.history]).path = PathB \o SubSeq(rec.from.path, 3, Len(rec.from.path))
    /\ StartsWith(rec.from.path, PathA)

\* C22: BrowserRouter passes the basename of its props when one is given, whatever
\* the document's <base href> is, and the value of <base href> otherwise.
C22_PropsBasenameFirst ==
    (cx.op = "browser_router" /\ cx.done) =>
        /\ cx.basename.some => cx.passed = cx.basename
        /\ ~cx.basename.some => cx.passed = cx.base

\* props gave /b in a document whose base is /a, and /b was passed on
C22_Witness ==
    /\ cx.op = "browser_router" /\ cx.done
    /\ cx.basename = Some(PathB) /\ cx.base = Some(PathA)
    /\ cx.passed = Some(PathB)

\* C23: whenever the Router is mounted, its effect has run for the store of its props
\* and no re-render is outstanding, the Location handed to the children is the
\* store's current location(): navigations committed between the first render and
\* the registration of the listener are picked up by the effect's forced update.
C23_Synchronized ==
    /\ [](Quiescent /\ ~eff_pending /\ eff_dep # 0
            => /\ published.ctx = loc_ctx
               /\ published.ctx.location = Location(stores[props.history]))
    /\ [][n_forced' = n_forced + 1
            => loc_ctx'.location = Location(stores[props.history])]_vars

\* a navigation no listener heard was committed on the Router's store, and after the
\* forced update the published Location is the store's
C23_Witness ==
    /\ Quiescent /\ ~eff_pending
    /\ n_forced = 1
    /\ nav_log = <<>>
    /\ Len(stores[props.history].entries) = 2
    /\ published.ctx.location = Location(stores[props.history])
    /\ published.ctx.location \in NavLocs

\* C24: a navigation callback runs to completion before any other routing callback
\* runs, and no listener callback (a dispatch to the cell) runs while a render is in
\* its basename reconciliation, the replace it issues on a store that has the
\* Router's listener included.
C24_NoReentrancy ==
    [][rec'.ran => cb_log' = cb_log]_vars

\* C25: the counter of the cell strictly increases at every dispatch, the dispatch
\* made when it holds u32::MAX included: no dispatch leaves a counter smaller than
\* or equal to the one before it.
C25_RevisionStrictlyIncreases ==
    [][loc_ctx'.ctr # loc_ctx.ctr => U32Less(loc_ctx.ctr, loc_ctx'.ctr)]_vars

\* C26: the Router registers its listener once per mount: while it is mounted and
\* its effect has run, exactly one listener is registered, on the store the effect
\* ran for; a render with that same store, whatever caused it, schedules no new run
\* of the effect and neither releases the listener nor registers another; at every
\* moment at most one store holds a listener of the Router.
C26_OneListenerPerMount ==
    /\ [](Cardinality({s \in StoreIds : listening[s]}) <= 1)
    /\ []((r_status = "active" /\ eff_dep # 0)
            => listening = [s \in StoreIds |-> s = eff_dep])
    /\ [][(rec' # NoRec /\ props'.history = eff_dep)
            => listening' = listening /\ ~eff_pending' /\ n_forced' = n_forced]_vars
    /\ []((r_status = "active" /\ props.history = eff_dep) => ~eff_pending)

\* after its mount the Router was rendered again for a navigation and for a change
\* of basename, with one run of the effect and one listener
C26_Witness ==
    /\ Quiescent
    /\ n_forced = 1
    /\ Len(nav_log) >= 1
    /\ rec.ran
    /\ listening = [s \in StoreIds |-> s = props.history]

\* C27: when the history prop is replaced by another store, the run of the effect that
\* follows releases the listener on the old store and registers the one on the new
\* store, force-updates the cell with the new store's current location, and from
\* then on a navigation on the old store changes neither the cell nor the Location
\* handed to the children.
C27_HistorySwap ==
    /\ [][(eff_dep # 0 /\ eff_dep' # eff_dep)
            => /\ ~listening'[eff_dep]
               /\ listening' = [s \in StoreIds |-> s = eff_dep']
               /\ eff_dep' = props.history
               /\ OneGreater(loc_ctx.ctr, loc_ctx'.ctr)
               /\ loc_ctx'.location = Location(stores[eff_dep'])]_vars
    /\ [][(r_status = "active" /\ eff_dep # 0 /\ ~eff_pending
             /\ \E s \in StoreIds \ {eff_dep} : stores'[s] # stores[s])
            => loc_ctx' = loc_ctx /\ published' = published /\ ~render_pending']_vars

\* the Router moved from store 1 to store 2; store 1 holds a navigation the Router
\* did not hear, and the children hold the Location of store 2
C27_Witness ==
    /\ Quiescent /\ ~eff_pending
    /\ n_forced = 2
    /\ eff_dep = 2
    /\ listening = [s \in StoreIds |-> s = 2]
    /\ Len(stores[1].entries) = 2
    /\ nav_log = <<>>
    /\ published.ctx.location = Location(stores[2])
    /\ published.ctx.location # Location(stores[1])

\* C28: registering the listener does not call it: a run of the effect makes one
\* dispatch, its forced update, and hands nothing to the listener callback; after a
\* mount during which no navigation was heard the published counter is exactly 1,
\* and the callback first runs on the first navigation committed afterwards.
C28_NoCallbackAtRegistration ==
    /\ [][n_forced' = n_forced + 1
            => /\ cb_log' = cb_log
               /\ OneGreater(loc_ctx.ctr, loc_ctx'.ctr)]_vars
    /\ []((Quiescent /\ n_forced = 1 /\ nav_log = <<>>)
            => cb_log = <<>> /\ published.ctx.ctr = U32(1))
    /\ []((Quiescent /\ n_forced = 1 /\ Len(nav_log) = 1)
            => cb_log = nav_log /\ published.ctx.ctr = U32(2))

\* the Router is mounted, no navigation was committed, and the children hold
\* revision 1
C28_Witness ==
    /\ Quiescent /\ ~eff_pending
    /\ n_forced = 1
    /\ n_commits = 0
    /\ cb_log = <<>>
    /\ listening[props.history]
    /\ published.ctx.ctr = U32(1)

\* C29: a render that finds no applied basename and is configured with one strips
\* that basename itself: if the store's path already leads with it, the path is left
\* as it is and no replace is issued; if it does not, one replace to basename + path
\* is issued.
C29_FirstRenderReconciliation ==
    [][(rec'.ran /\ ~rec'.old.some /\ rec'.new.some)
        => LET h == props'.history
               path == Location(stores[h]).path
           IN /\ rec'.from.path = path
              /\ IF StartsWith(path, rec'.new.v)
                 THEN /\ ~rec'.issued
                      /\ stores' = stores
                      /\ n_commits' = n_commits
                 ELSE /\ rec'.issued
                      /\ Location(stores'[h]).path = rec'.new.v \o path
                      /\ stores'[h] = Replace(stores[h], Loc(rec'.new.v \o path,
                                                              Location(stores[h]).query))
                      /\ n_commits' = n_commits + 1]_vars

\* the first render found the store at /a/b with the basename /a configured and left
\* the store as it was
C29_Witness ==
    /\ rec.ran /\ ~rec.old.some
    /\ rec.new = Some(PathA)
    /\ rec.from.path = PathAB
    /\ ~rec.issued
    /\ eff_dep = 0
    /\ Location(stores[props.history]).path = PathAB

\* C30: after every render the applied basename is the configured one, its trailing
\* slash stripped; a render with the basename that is already applied does not
\* reconcile: it issues no replace and leaves every store as it is, whatever was
\* navigated since the basename was applied.
C30_ReconciliationIdempotent ==
    /\ [](r_status = "active" => old_basename = configured_basename(props.basename))
    /\ [][(rec' # NoRec /\ old_basename = configured_basename(props'.basename))
            => /\ ~rec'.ran /\ ~rec'.issued
               /\ stores' = stores
               /\ n_commits' = n_commits
               /\ old_basename' = old_basename]_vars

\* the Router was rendered again with the basename it had applied, after a
\* navigation to a path outside that basename, and left the store alone
C30_Witness ==
    /\ Quiescent
    /\ rec # NoRec /\ ~rec.ran
    /\ old_basename.some
    /\ Len(nav_log) >= 1
    /\ Location(stores[props.history]) = nav_log[Len(nav_log)]
    /\ ~StartsWith(Location(stores[props.history]).path, old_basename.v)

---------------------------------------------------------------------------
(* Properties of the first render, the applied basename and the Navigator *)

\* C31: the first render hands its children a Location of revision 0 that is the
\* store's Location after the reconciliation: when the reconciliation replaced
\* the path, the children see the re-homed path, not the one the page loaded with.
C31_InitialLocationAfterReconciliation ==
    [][(r_status = "uninit" /\ r_status' = "active")
        => /\ published'.has
           /\ published'.ctx.ctr = U32(0)
           /\ published'.ctx.location = Location(stores'[props'.history])
           /\ rec'.issued
                 => /\ published'.ctx.location.path = rec'.to
                    /\ published'.ctx.location.path # rec'.from.path
                    /\ rec'.from = Location(stores[props'.history])]_vars

\* the page loaded at /a/b, the first render re-homed it under /b and handed
\* /b/a/b to its children at revision 0
C31_Witness ==
    /\ r_status = "active" /\ eff_dep = 0
    /\ rec.ran /\ rec.issued
    /\ rec.from.path = PathAB
    /\ rec.new = Some(PathB)
    /\ published.ctx.ctr = U32(0)
    /\ published.ctx.location.path = PathB \o PathAB

\* C32: the applied basename changes only in a render of the Router whose
\* reconciliation ran, from a value that differs from the configured basename to
\* the configured basename; a navigation, a dispatch of the listener or of the
\* effect, a render of a Switch and the unmount leave it as it is, and the
\* Navigator the descendants hold carries a copy of it.
C32_AppliedBasenameFrame ==
    /\ [][old_basename' # old_basename
            => /\ rec'.ran
               /\ rec'.old = old_basename
               /\ rec'.new # old_basename
               /\ rec'.new = configured_basename(props'.basename)
               /\ old_basename' = rec'.new]_vars
    /\ [][(\/ (n_commits' # n_commits /\ ~rec'.ran)
            \/ n_forced' # n_forced
            \/ sw'.ran
            \/ r_status' = "destroyed")
            => old_basename' = old_basename /\ navi_ctx' = navi_ctx]_vars
    /\ [](navi_ctx.has => navi_ctx.basename = old_basename)

\* a basename was applied, a navigation was heard and a Switch rendered under the
\* Router: the applied basename and the Navigator's copy are still that basename
C32_Witness ==
    /\ sw.done
    /\ Len(cb_log) = 1
    /\ n_forced = 1
    /\ old_basename = Some(PathB)
    /\ navi_ctx.basename = Some(PathB)

\* C33: a render of the mounted Router whose resolved basename is the one the
\* previous render resolved constructs no Navigator; the first render and a render
\* whose basename changed construct one.
C33_NavigatorOncePerBasename ==
    [][rec' # NoRec
        => IF r_status = "active" /\ ~rec'.ran
           THEN rec'.navigators = 0
           ELSE rec'.navigators >= 1]_vars

---------------------------------------------------------------------------
(* Properties of the sockets on port 8087 *)

\* C35: in a render of Switch over AnyRoute no more than one socket is bound to
\* port 8087 at a time: when AnyRoute::recognize is called for the pathname
\* override the Switch holds none, the call does not fail, and a render whose own
\* socket calls succeeded ends by handing the route of the override to the callback.
C35_OneSocketAtATime ==
    /\ [](Cardinality(io.held) <= 1)
    /\ [][(io.op = "resolve" /\ io.pathname.some /\ io' # io)
            => /\ "Switch" \notin io.held
               /\ ~(cx'.op = "recognize" /\ ~cx'.done)
               /\ io'.op = "none"
                     => sw'.done /\ sw'.emitted = <<AnyRoute(io.pathname.v)>>]_vars

---------------------------------------------------------------------------
(* Properties of the stream handlers *)

\* C36: a call of a stream handler that is over returned Ok exactly when its read
\* succeeded with more than zero bytes; a handler that returned Err did not call
\* its engine, and no handler returns its engine-error Err.
C36_OkIffDataRead ==
    /\ cx.h.pc \in {"returned", "panicked", "replaced", "crashed"}
          => (cx.h.result = "Ok" <=> cx.h.read_result > 0)
    /\ cx.h.result = "Err" => ~cx.h.engine
    /\ cx.h.result # "EngineErr"

\* C37: execute_component_copy is never asked to copy more bytes than its
\* destination buffer holds, whatever datagram of 1 to 1024 bytes was received.
C37_CopyWithinBuffer ==
    (cx.h.fn = "process_component_stream" /\ cx.h.engine)
        => /\ cx.h.read_result \in 1..BufferSize
           /\ cx.h.size <= DstSize

\* C38: in handle_command_operations the execvp step is reached only after an
\* execve that failed, the handler gets a result only after an execve that failed,
\* and once an exec call succeeded nothing more happens in the process.
C38_ExecvpOnlyAfterFailedExecve ==
    /\ [](cx.h.pc = "execvp" => cx.h.execve = "failed")
    /\ []((cx.h.fn = "process_command_stream" /\ cx.h.engine /\ cx.h.pc = "returned")
             => cx.h.execve = "failed" /\ cx.h.execvp = "failed")
    /\ []((cx.h.execve = "succeeded" \/ cx.h.execvp = "succeeded")
             => cx.h.pc = "replaced" /\ cx.h.result = "none")
    /\ [][cx.h.pc = "replaced" => cx' = cx]_vars

\* the datagram "//a" made the path "a"; execve failed, execvp was reached and
\* failed too, and the handler returned Ok
C38_Witness ==
    /\ cx.h.fn = "process_command_stream"
    /\ cx.h.pc = "returned" /\ cx.h.result = "Ok"
    /\ cx.h.execve = "failed" /\ cx.h.execvp = "failed"
    /\ cx.h.final_data # <<>>

====
